---- MODULE Spec2Model ----
(***************************************************************************)
(* DataElevate (src/DataElevate/main.py): a Streamlit script that loads    *)
(* uploaded CSV / Excel files into pandas tables, shows a summary, offers  *)
(* two cleaning buttons, a column multiselect, charts and a conversion     *)
(* button.  Streamlit re-runs the whole script on every user interaction;  *)
(* widget values live in the session, a button is True only in the run     *)
(* its click started.                                                      *)
(*                                                                         *)
(* The "About" page (st.stop() at line 17) and the run with nothing        *)
(* uploaded (line 130) show no file and are left out.                      *)
(*                                                                         *)
(* Two specifications:                                                     *)
(*   Spec      the script as a state machine: one step per stage of the    *)
(*             per-file loop body, one user interaction between runs;      *)
(*   SpecTable the table operations the stages call (drop_duplicates,      *)
(*             fillna(mean), df[selected_columns], to_csv/read_csv,        *)
(*             to_excel/read_excel) applied to every table the loader      *)
(*             builds from a bounded grid of file contents.                *)
(***************************************************************************)
EXTENDS Integers, Sequences, FiniteSets, TLC

VARIABLES
    uploaded_files,   \* st.file_uploader value: the batch, a sequence of files
    clean_checkbox,   \* session: "Clean Data for <name>" per file
    vis_checkbox,     \* session: "Show Visualization for <name>" per file
    chart_type,       \* session: the one "Select chart type:" selectbox (no key)
    selected_columns, \* session: multiselect value per file
    x_axis,           \* session: selectbox key x_<name>, an index into cols
    y_axis,           \* session: selectbox key y_<name>, an index into cols
    conversion_type,  \* session: radio key <name>
    pressed,          \* the button whose click started the current run
    interactions,     \* number of user interactions so far
    history,          \* per file: the cleaning buttons pressed in earlier runs
    idx,              \* loop position: index of the current file
    pc,               \* position in the loop body / run state
    file_ext,         \* line 25
    df,               \* the working table of the current file
    stages,           \* per file: the stages executed in the current run
    ui,               \* per file: what the current run has put on the page
    content,          \* SpecTable: the file content the table was loaded from
    orig,             \* SpecTable: the table as loaded
    op,               \* SpecTable: the operation applied last
    res               \* SpecTable: what the operation reported / produced

appVars == <<uploaded_files, clean_checkbox, vis_checkbox, chart_type,
             selected_columns, x_axis, y_axis, conversion_type, pressed,
             interactions, history, idx, pc, file_ext, stages, ui>>
tableVars == <<content, orig, op, res>>
vars == <<appVars, df, tableVars>>

----------------------------------------------------------------------------
(* Bounds of the model.                                                    *)

\* user interactions (script re-runs after the first) explored per session
MaxInteractions == 4
\* data rows of a generated file content in SpecTable
MaxRows == 3
\* largest magnitude of an integer literal the parser is tried on
MaxAbs == 30

----------------------------------------------------------------------------
(* Values.  A cell is a number (a reduced fraction n/d), a missing value,  *)
(* a text or a date; all four share one record shape.                      *)

Num(n, d) == [k |-> "num", n |-> n, d |-> d, s |-> ""]
NaN == [k |-> "nan", n |-> 0, d |-> 1, s |-> ""]
Str(s) == [k |-> "str", n |-> 0, d |-> 1, s |-> s]
Date(s) == [k |-> "date", n |-> 0, d |-> 1, s |-> s]

Range(f) == {f[i] : i \in DOMAIN f}

Abs(a) == IF a < 0 THEN -a ELSE a

RECURSIVE Gcd(_, _)
Gcd(a, b) == IF b = 0 THEN a ELSE Gcd(b, a % b)

\* the fraction n/d (d > 0) in lowest terms
Frac(n, d) ==
    LET g == Gcd(Abs(n), d)
    IN  Num(n \div g, d \div g)

RECURSIVE SumSeq(_)
\* sum of a sequence of number cells, as a pair <<numerator, denominator>>
SumSeq(s) ==
    IF s = <<>> THEN <<0, 1>>
    ELSE LET r == SumSeq(Tail(s))
             c == Head(s)
         IN  <<c.n * r[2] + r[1] * c.d, c.d * r[2]>>

----------------------------------------------------------------------------
(* Tables.  A DataFrame has ordered column names, one dtype per column and *)
(* rows of cells; the row index is not modelled (every export is written   *)
(* with index=False, and no stage reads it).                               *)

NumberDtypes == {"int64", "float64"}

Column(d, j) == [i \in 1..Len(d.rows) |-> d.rows[i][j]]

IndexOf(name, names) == CHOOSE j \in 1..Len(names) : names[j] = name

\* df.select_dtypes(include=["number"]).columns, as column positions in order
NumericPositions(d) ==
    SelectSeq([j \in 1..Len(d.columns) |-> j],
              LAMBDA j : d.dtypes[j] \in NumberDtypes)

\* df[names]: the columns `names`, in that order, all rows kept
Project(d, names) ==
    LET pos == [q \in 1..Len(names) |-> IndexOf(names[q], d.columns)]
    IN  [columns |-> names,
         dtypes  |-> [q \in 1..Len(names) |-> d.dtypes[pos[q]]],
         rows    |-> [i \in 1..Len(d.rows) |->
                        [q \in 1..Len(names) |-> d.rows[i][pos[q]]]]]

\* df.select_dtypes(include=["number"])
select_dtypes_number(d) ==
    LET pos == NumericPositions(d)
    IN  Project(d, [q \in 1..Len(pos) |-> d.columns[pos[q]]])

\* DataFrame.empty: True when any axis has length 0
IsEmptyFrame(d) == Len(d.columns) = 0 \/ Len(d.rows) = 0

\* df.head(): the first HeadRows rows
HeadRows == 5
head(d) == SubSeq(d.rows, 1, IF Len(d.rows) < HeadRows THEN Len(d.rows) ELSE HeadRows)

\* df.isnull().sum(): per column, the number of missing cells
isnull_sum(d) ==
    [j \in 1..Len(d.columns) |->
        Cardinality({i \in 1..Len(d.rows) : d.rows[i][j].k = "nan"})]

\* the count row of df.describe(include="all").T: per column, the number of
\* non-missing cells
describe_count(d) ==
    [j \in 1..Len(d.columns) |->
        Cardinality({i \in 1..Len(d.rows) : d.rows[i][j].k # "nan"})]

RECURSIVE KeepFirst(_, _)
KeepFirst(rows, seen) ==
    IF rows = <<>> THEN <<>>
    ELSE IF Head(rows) \in seen THEN KeepFirst(Tail(rows), seen)
    ELSE <<Head(rows)>> \o KeepFirst(Tail(rows), seen \cup {Head(rows)})

Reverse(s) == [i \in 1..Len(s) |-> s[Len(s) + 1 - i]]

\* a variant of drop_duplicates that keeps the last occurrence (keep="last")
drop_duplicates_last(d) == [d EXCEPT !.rows = Reverse(KeepFirst(Reverse(d.rows), {}))]

\* df.drop_duplicates(inplace=True): keep="first" over all columns; two
\* missing values in the same column count as equal
drop_duplicates(d) == [d EXCEPT !.rows = KeepFirst(d.rows, {})]

\* a variant of ColMean that divides by the number of rows (skipna=False
\* with missing values counted as zero)
ColMeanAllRows(d, j) ==
    LET vals == SelectSeq(Column(d, j), LAMBDA c : c.k = "num")
        s == SumSeq(vals)
    IN  IF vals = <<>> THEN NaN ELSE Frac(s[1], s[2] * Len(d.rows))

\* Series.mean(): over the non-missing values; NaN when there is none
ColMean(d, j) ==
    LET vals == SelectSeq(Column(d, j), LAMBDA c : c.k = "num")
        s == SumSeq(vals)
    IN  IF vals = <<>> THEN NaN ELSE Frac(s[1], s[2] * Len(vals))

\* df[numeric_cols] = df[numeric_cols].fillna(df[numeric_cols].mean());
\* the means are all computed from the table as it is before the assignment
fillna_mean(d) ==
    LET numeric_cols == Range(NumericPositions(d))
    IN  [d EXCEPT !.rows =
            [i \in 1..Len(d.rows) |->
                [j \in 1..Len(d.columns) |->
                    IF j \in numeric_cols /\ d.rows[i][j].k = "nan"
                    THEN ColMean(d, j)
                    ELSE d.rows[i][j]]]]

----------------------------------------------------------------------------
(* File contents and the pandas readers / writers.  A content is a header  *)
(* and data lines, already split into fields.  CSV fields are texts; xlsx  *)
(* cells are typed.  fmt is what the bytes are ("csv" text, an "xlsx"      *)
(* workbook), whatever the file is called.                                 *)

NaStrings == {"", "NA", "NaN", "null"}

IsIntLit(s) == \E n \in -MaxAbs..MaxAbs : ToString(n) = s
IntOf(s) == CHOOSE n \in -MaxAbs..MaxAbs : ToString(n) = s
IsFloatLit(s) == \E n \in -MaxAbs..MaxAbs : ToString(n) \o ".0" = s
FloatOf(s) == CHOOSE n \in -MaxAbs..MaxAbs : ToString(n) \o ".0" = s

\* read_csv's column type inference
csv_dtype(fields) ==
    IF fields = <<>> THEN "object"
    ELSE IF \A i \in DOMAIN fields : IsIntLit(fields[i]) THEN "int64"
    ELSE IF \A i \in DOMAIN fields :
                \/ fields[i] \in NaStrings
                \/ IsIntLit(fields[i])
                \/ IsFloatLit(fields[i])
         THEN "float64"
    ELSE "object"

csv_cell(dtype, s) ==
    IF s \in NaStrings THEN NaN
    ELSE IF dtype = "object" THEN Str(s)
    ELSE IF IsIntLit(s) THEN Num(IntOf(s), 1)
    ELSE Num(FloatOf(s), 1)

\* a header cell that is empty is named "Unnamed: <position>"
header_name(h, j) == IF h[j] = "" THEN "Unnamed: " \o ToString(j - 1) ELSE h[j]

\* pd.read_csv raises on bytes that are no text and on a content without columns
read_csv_raises(c) == c.fmt # "csv" \/ c.header = <<>>

read_csv(c) ==
    LET nc == Len(c.header)
        nr == Len(c.lines)
        dt == [j \in 1..nc |-> csv_dtype([i \in 1..nr |-> c.lines[i][j].s])]
    IN  [columns |-> [j \in 1..nc |-> header_name(c.header, j)],
         dtypes  |-> dt,
         rows    |-> [i \in 1..nr |-> [j \in 1..nc |-> csv_cell(dt[j], c.lines[i][j].s)]]]

\* a number as to_csv writes it: str(int) in an integer or object column,
\* repr(float) in a float column (integral values only reach the exporter)
csv_field(dtype, c) ==
    CASE c.k = "nan" -> ""
      [] c.k = "num" /\ c.d = 1 /\ dtype = "float64" -> ToString(c.n) \o ".0"
      [] c.k = "num" /\ c.d = 1 /\ dtype # "float64" -> ToString(c.n)
      [] c.k \in {"str", "date"} -> c.s

\* df.to_csv(buffer, index=index)
to_csv(d, index) ==
    LET line(i) == [j \in 1..Len(d.columns) |-> Str(csv_field(d.dtypes[j], d.rows[i][j]))]
    IN  [fmt    |-> "csv",
         header |-> IF index THEN <<"">> \o d.columns ELSE d.columns,
         lines  |-> [i \in 1..Len(d.rows) |->
                        IF index THEN <<Str(ToString(i - 1))>> \o line(i) ELSE line(i)]]

RECURSIVE TrimTrailingEmpty(_)
\* the openpyxl reader drops the trailing rows that hold no value
TrimTrailingEmpty(lines) ==
    IF lines = <<>> THEN <<>>
    ELSE IF \A j \in DOMAIN lines[Len(lines)] : lines[Len(lines)][j].k = "nan"
         THEN TrimTrailingEmpty(SubSeq(lines, 1, Len(lines) - 1))
    ELSE lines

\* read_excel's column type
xl_dtype(cells) ==
    IF cells = <<>> THEN "object"
    ELSE IF \A i \in DOMAIN cells : cells[i].k = "num" /\ cells[i].d = 1 THEN "int64"
    ELSE IF \A i \in DOMAIN cells : cells[i].k \in {"num", "nan"} THEN "float64"
    ELSE IF \A i \in DOMAIN cells : cells[i].k \in {"date", "nan"} THEN "datetime64"
    ELSE "object"

\* pd.read_excel raises on bytes that are no workbook
read_excel_raises(c) == c.fmt # "xlsx"

read_excel(c) ==
    LET nc == Len(c.header)
        lines == TrimTrailingEmpty(c.lines)
        nr == Len(lines)
    IN  [columns |-> [j \in 1..nc |-> header_name(c.header, j)],
         dtypes  |-> [j \in 1..nc |-> xl_dtype([i \in 1..nr |-> lines[i][j]])],
         rows    |-> [i \in 1..nr |-> [j \in 1..nc |-> lines[i][j]]]]

\* df.to_excel(buffer, index=index): one sheet, typed cells, missing = empty
to_excel(d, index) ==
    [fmt    |-> "xlsx",
     header |-> IF index THEN <<"">> \o d.columns ELSE d.columns,
     lines  |-> [i \in 1..Len(d.rows) |->
                    IF index THEN <<Num(i - 1, 1)>> \o d.rows[i] ELSE d.rows[i]]]

----------------------------------------------------------------------------
(* File names are sequences of characters, so that os.path.splitext,       *)
(* str.lower and str.replace act on them as they do on Python strings.     *)

Uppers == <<"A","B","C","D","E","F","G","H","I","J","K","L","M",
            "N","O","P","Q","R","S","T","U","V","W","X","Y","Z">>
Lowers == <<"a","b","c","d","e","f","g","h","i","j","k","l","m",
            "n","o","p","q","r","s","t","u","v","w","x","y","z">>

lower_char(c) ==
    IF \E i \in DOMAIN Uppers : Uppers[i] = c
    THEN Lowers[CHOOSE i \in DOMAIN Uppers : Uppers[i] = c]
    ELSE c

\* str.lower()
lower(s) == [i \in 1..Len(s) |-> lower_char(s[i])]

\* str.rfind(ch), 1-based; 0 when absent
rfind(s, ch) ==
    IF \E i \in DOMAIN s : s[i] = ch
    THEN CHOOSE i \in DOMAIN s : s[i] = ch /\ \A j \in DOMAIN s : s[j] = ch => j <= i
    ELSE 0

\* os.path.splitext(p): the extension starts at the last dot that follows
\* the last "/" and is preceded by a character of the base name other than a dot
splitext(p) ==
    LET sepIndex == rfind(p, "/")
        dotIndex == rfind(p, ".")
    IN  IF /\ dotIndex > sepIndex
           /\ \E i \in (sepIndex + 1)..(dotIndex - 1) : p[i] # "."
        THEN <<SubSeq(p, 1, dotIndex - 1), SubSeq(p, dotIndex, Len(p))>>
        ELSE <<p, <<>>>>

RECURSIVE replace(_, _, _)
\* str.replace(old, new) for a non-empty old: every non-overlapping
\* occurrence, scanning from the left
replace(s, old, new) ==
    IF Len(s) < Len(old) THEN s
    ELSE IF SubSeq(s, 1, Len(old)) = old
         THEN new \o replace(SubSeq(s, Len(old) + 1, Len(s)), old, new)
    ELSE <<Head(s)>> \o replace(Tail(s), old, new)

DotCsv == <<".", "c", "s", "v">>
DotXlsx == <<".", "x", "l", "s", "x">>

\* lines 115 / 119
new_file_name(name, ext, conv) ==
    IF conv = "CSV" THEN replace(name, ext, DotCsv) ELSE replace(name, ext, DotXlsx)

\* lines 116 / 120
mime_type(conv) ==
    IF conv = "CSV" THEN "text/csv"
    ELSE "application/vnd.openxmlformats-officedocument.spreadsheetml.sheet"

----------------------------------------------------------------------------
(* The uploads explored.                                                   *)

Row2(a, b) == <<Str(a), Str(b)>>

\* id,name / 1,a / 1,a / 2,b
FileA == [name |-> <<"a", ".", "c", "s", "v">>,
          content |-> [fmt |-> "csv", header |-> <<"id", "name">>,
                       lines |-> <<Row2("1", "a"), Row2("1", "a"), Row2("2", "b")>>]]

\* a workbook: two numeric columns (one with a missing value) and a date column
FileN == [name |-> <<"n", ".", "x", "l", "s", "x">>,
          content |-> [fmt |-> "xlsx", header |-> <<"p", "q", "d">>,
                       lines |-> <<<<Num(10, 1), Num(1, 1), Date("2024-01-01")>>,
                                   <<NaN, Num(2, 1), Date("2024-01-02")>>,
                                   <<Num(30, 1), Num(2, 1), Date("2024-01-02")>>>>]]

\* upper-case extension, text columns only, last line ","
FileD == [name |-> <<"D", ".", "C", "S", "V">>,
          content |-> [fmt |-> "csv", header |-> <<"t", "u">>,
                       lines |-> <<Row2("x", "y"), Row2("x", "y"), Row2("", "")>>]]

\* the extension text occurs twice in the name; a header and no data line
FileZ == [name |-> <<"a", ".", "c", "s", "v", ".", "b", ".", "c", "s", "v">>,
          content |-> [fmt |-> "csv", header |-> <<"id">>, lines |-> <<>>]]

\* not a .csv / .xlsx name
FileR == [name |-> <<"r", ".", "t", "x", "t">>,
          content |-> [fmt |-> "csv", header |-> <<"id">>, lines |-> <<<<Str("1")>>>>]]

\* an empty file: pd.read_csv raises EmptyDataError
FileE == [name |-> <<"e", ".", "c", "s", "v">>,
          content |-> [fmt |-> "csv", header |-> <<>>, lines |-> <<>>]]

Batches == {<<FileA>>, <<FileN>>, <<FileE, FileA>>, <<FileD, FileZ>>,
            <<FileR, FileN, FileD>>}

----------------------------------------------------------------------------
(* The script, lines 22-128.                                               *)

EmptyFrame == [columns |-> <<>>, dtypes |-> <<>>, rows |-> <<>>]
EmptyContent == [fmt |-> "", header |-> <<>>, lines |-> <<>>]
NoButton == [kind |-> "none", file |-> 0]
NoDownload == [present |-> FALSE, data |-> EmptyContent, file_name |-> <<>>, mime |-> ""]
NoChart == [kind |-> "", columns |-> <<>>]

ChartTypes == <<"Bar Chart", "Line Chart", "Area Chart", "Scatter Plot">>

BlankUi == [errors |-> 0, error_kind |-> "", inspected |-> FALSE,
            preview |-> <<>>, describe |-> <<>>, missing |-> <<>>,
            removed |-> -1, filled |-> FALSE,
            options |-> <<>>, working |-> EmptyFrame,
            chart_select |-> FALSE, notice |-> FALSE, scatter_warning |-> FALSE,
            chart |-> NoChart, axes |-> FALSE, x |-> "", y |-> "",
            download |-> NoDownload]

N == Len(uploaded_files)
Files == 1..N

\* lines 25-38: the extension dispatch inside the try block
Load(file) ==
    LET ext == lower(splitext(file.name)[2])
    IN  IF ext = DotCsv
        THEN IF read_csv_raises(file.content)
             THEN [ok |-> FALSE, kind |-> "parse", df |-> EmptyFrame]
             ELSE [ok |-> TRUE, kind |-> "", df |-> read_csv(file.content)]
        ELSE IF ext = DotXlsx
        THEN IF read_excel_raises(file.content)
             THEN [ok |-> FALSE, kind |-> "parse", df |-> EmptyFrame]
             ELSE [ok |-> TRUE, kind |-> "", df |-> read_excel(file.content)]
        ELSE [ok |-> FALSE, kind |-> "unsupported", df |-> EmptyFrame]

\* a variant of StageAfter that runs the inspector after the cleaner
StageAfterCleanFirst(stage) ==
    CASE stage = "load" -> "clean"
      [] stage = "clean" -> "inspect"
      [] stage = "inspect" -> "select"
      [] stage = "select" -> "visualize"
      [] stage = "visualize" -> "convert"
      [] stage = "convert" -> "load"

\* the order of the stages in the loop body, lines 40-127
StageAfter(stage) ==
    CASE stage = "load" -> "inspect"
      [] stage = "inspect" -> "clean"
      [] stage = "clean" -> "select"
      [] stage = "select" -> "visualize"
      [] stage = "visualize" -> "convert"
      [] stage = "convert" -> "load"

\* a variant of ColumnSelect without the `if selected_columns:` guard
ColumnSelectAlways(d, sel) == Project(d, sel)

\* lines 72-73: an empty selection applies no filter
ColumnSelect(d, sel) == IF sel # <<>> THEN Project(d, sel) ELSE d

\* lines 59-62: the body of the "Remove Duplicates" button
RemoveDuplicatesButton(d) ==
    LET before_count == Len(d.rows)
        after == drop_duplicates(d)
        after_count == Len(after.rows)
    IN  [df |-> after, removed |-> before_count - after_count]

\* lines 65-66: the body of the "Fill Missing Values" button
FillMissingButton(d) == fillna_mean(d)

\* a variant of Export that writes the row index (the pandas default)
ExportWithIndex(d, conv) == IF conv = "CSV" THEN to_csv(d, TRUE) ELSE to_excel(d, TRUE)

\* lines 112-118: the bytes written for the download, without the row index
Export(d, conv) == IF conv = "CSV" THEN to_csv(d, FALSE) ELSE to_excel(d, FALSE)

\* st.multiselect(..., default=df.columns.tolist())
MultiselectValue(state, d) == IF state.touched THEN state.value ELSE d.columns

Untouched == [touched |-> FALSE, value |-> <<>>]

Init ==
    /\ uploaded_files \in Batches
    /\ clean_checkbox = [f \in 1..Len(uploaded_files) |-> FALSE]
    /\ vis_checkbox = [f \in 1..Len(uploaded_files) |-> FALSE]
    /\ chart_type = ChartTypes[1]
    /\ selected_columns = [f \in 1..Len(uploaded_files) |-> Untouched]
    /\ x_axis = [f \in 1..Len(uploaded_files) |-> 0]
    /\ y_axis = [f \in 1..Len(uploaded_files) |-> 0]
    /\ conversion_type = [f \in 1..Len(uploaded_files) |-> "CSV"]
    /\ pressed = NoButton
    /\ interactions = 0
    /\ history = [f \in 1..Len(uploaded_files) |-> <<>>]
    /\ idx = 1
    /\ pc = "load"
    /\ file_ext = <<>>
    /\ df = EmptyFrame
    /\ stages = [f \in 1..Len(uploaded_files) |-> {}]
    /\ ui = [f \in 1..Len(uploaded_files) |-> BlankUi]
    /\ content = EmptyContent
    /\ orig = EmptyFrame
    /\ op = "app"
    /\ res = [removed |-> 0, sel |-> <<>>, conv |-> "", data |-> EmptyContent,
              back |-> [ok |-> FALSE, kind |-> "", df |-> EmptyFrame]]

session == <<uploaded_files, clean_checkbox, vis_checkbox, chart_type,
             selected_columns, x_axis, y_axis, conversion_type, interactions,
             history>>

Mark(stage) == [stages EXCEPT ![idx] = @ \cup {stage}]

\* lines 25-38
LoadFile ==
    /\ pc = "load" /\ idx <= N
    /\ LET file == uploaded_files[idx]
           r == Load(file)
       IN  /\ file_ext' = lower(splitext(file.name)[2])
           /\ stages' = Mark("load")
           /\ IF r.ok
              THEN /\ df' = r.df
                   /\ pc' = StageAfter("load")
                   /\ UNCHANGED <<idx, ui>>
              ELSE \* st.error(...); continue
                   /\ ui' = [ui EXCEPT ![idx].errors = @ + 1, ![idx].error_kind = r.kind]
                   /\ idx' = idx + 1
                   /\ UNCHANGED <<df, pc>>
    /\ UNCHANGED <<session, pressed, tableVars>>

\* lines 40-51
Inspect ==
    /\ pc = "inspect"
    /\ ui' = [ui EXCEPT ![idx].inspected = TRUE,
                        ![idx].preview = head(df),
                        ![idx].describe = describe_count(df),
                        ![idx].missing = isnull_sum(df)]
    /\ stages' = Mark("inspect")
    /\ pc' = StageAfter("inspect")
    /\ UNCHANGED <<session, pressed, idx, file_ext, df, tableVars>>

\* lines 53-67
Clean ==
    /\ pc = "clean"
    /\ stages' = Mark("clean")
    /\ pc' = StageAfter("clean")
    /\ IF clean_checkbox[idx] /\ pressed = [kind |-> "dup", file |-> idx]
       THEN LET r == RemoveDuplicatesButton(df)
            IN  /\ df' = r.df
                /\ ui' = [ui EXCEPT ![idx].removed = r.removed]
       ELSE IF clean_checkbox[idx] /\ pressed = [kind |-> "fill", file |-> idx]
       THEN /\ df' = FillMissingButton(df)
            /\ ui' = [ui EXCEPT ![idx].filled = TRUE]
       ELSE UNCHANGED <<df, ui>>
    /\ UNCHANGED <<session, pressed, idx, file_ext, tableVars>>

\* lines 69-73
Select ==
    /\ pc = "select"
    /\ LET sel == MultiselectValue(selected_columns[idx], df)
       IN  /\ df' = ColumnSelect(df, sel)
           /\ ui' = [ui EXCEPT ![idx].options = df.columns,
                               ![idx].working = ColumnSelect(df, sel)]
           /\ selected_columns' =
                [selected_columns EXCEPT ![idx] = [touched |-> TRUE, value |-> sel]]
    /\ stages' = Mark("select")
    /\ pc' = StageAfter("select")
    /\ UNCHANGED <<uploaded_files, clean_checkbox, vis_checkbox, chart_type, x_axis,
                   y_axis, conversion_type, interactions, history, pressed, idx,
                   file_ext, tableVars>>

\* an exception leaves the script: the run is over, the rest of the page is
\* not produced
Raise ==
    /\ pc' = "crashed"
    /\ pressed' = NoButton

\* lines 75-106
Visualize ==
    /\ pc = "visualize"
    /\ stages' = Mark("visualize")
    /\ IF ~vis_checkbox[idx]
       THEN /\ pc' = StageAfter("visualize")
            /\ UNCHANGED <<ui, pressed>>
       ELSE IF \E g \in Files : ui[g].chart_select
       THEN \* line 79: a second selectbox with the same label and no key in
            \* one run: Streamlit raises DuplicateWidgetID
            /\ Raise
            /\ UNCHANGED ui
       ELSE LET numeric_df == select_dtypes_number(df)
                cols == numeric_df.columns
                shown == [ui EXCEPT ![idx].chart_select = TRUE]
            IN  IF IsEmptyFrame(numeric_df)
                THEN /\ ui' = [shown EXCEPT ![idx].notice = TRUE]
                     /\ pc' = StageAfter("visualize")
                     /\ UNCHANGED pressed
                ELSE IF chart_type # "Scatter Plot"
                THEN /\ ui' = [shown EXCEPT ![idx].chart =
                                    [kind |-> chart_type, columns |-> cols]]
                     /\ pc' = StageAfter("visualize")
                     /\ UNCHANGED pressed
                ELSE IF Len(cols) >= 2
                THEN \* lines 94-95 render the two selectboxes (index 0 by
                     \* default); line 101 then reads the name alt, which
                     \* the script never imports: NameError
                     /\ ui' = [shown EXCEPT ![idx].axes = TRUE,
                                            ![idx].x = cols[x_axis[idx] + 1],
                                            ![idx].y = cols[y_axis[idx] + 1]]
                     /\ Raise
                ELSE /\ ui' = [shown EXCEPT ![idx].scatter_warning = TRUE]
                     /\ pc' = StageAfter("visualize")
                     /\ UNCHANGED pressed
    /\ UNCHANGED <<session, idx, file_ext, df, tableVars>>

\* lines 108-127, then the loop moves to the next file
Convert ==
    /\ pc = "convert"
    /\ stages' = Mark("convert")
    /\ IF pressed = [kind |-> "convert", file |-> idx]
       THEN LET conv == conversion_type[idx]
                buffer == Export(df, conv)
            IN  ui' = [ui EXCEPT ![idx].download =
                          [present |-> TRUE, data |-> buffer,
                           file_name |-> new_file_name(uploaded_files[idx].name,
                                                       file_ext, conv),
                           mime |-> mime_type(conv)]]
       ELSE UNCHANGED ui
    /\ pc' = StageAfter("convert")
    /\ idx' = idx + 1
    /\ UNCHANGED <<session, pressed, file_ext, df, tableVars>>

\* line 128: the loop is over.  Streamlit then forgets the value of every
\* widget the finished run did not show, and buttons are False again
Finish ==
    /\ pc = "load" /\ idx = N + 1
    /\ pc' = "done"
    /\ pressed' = NoButton
    /\ chart_type' = IF \E f \in Files : ui[f].chart_select
                     THEN chart_type ELSE ChartTypes[1]
    /\ x_axis' = [f \in Files |-> IF ui[f].axes THEN x_axis[f] ELSE 0]
    /\ y_axis' = [f \in Files |-> IF ui[f].axes THEN y_axis[f] ELSE 0]
    /\ UNCHANGED <<uploaded_files, clean_checkbox, vis_checkbox, selected_columns,
                   conversion_type, interactions, history, idx, file_ext, df,
                   stages, ui, tableVars>>

----------------------------------------------------------------------------
(* User interactions.  A widget can be used once the run that shows it is  *)
(* over; every interaction re-runs the script from the top.                *)

Idle == pc \in {"done", "crashed"} /\ interactions < MaxInteractions

Rerun(button) ==
    /\ pressed' = button
    /\ interactions' = interactions + 1
    /\ idx' = 1
    /\ pc' = "load"
    /\ file_ext' = <<>>
    /\ df' = EmptyFrame
    /\ stages' = [f \in Files |-> {}]
    /\ ui' = [f \in Files |-> BlankUi]
    /\ UNCHANGED <<uploaded_files, tableVars>>

ToggleClean(f) ==
    /\ Idle /\ "clean" \in stages[f]
    /\ clean_checkbox' = [clean_checkbox EXCEPT ![f] = ~@]
    /\ Rerun(NoButton)
    /\ UNCHANGED <<vis_checkbox, chart_type, selected_columns, x_axis, y_axis,
                   conversion_type, history>>

\* the two buttons exist only inside the checked "Clean Data" block
PressClean(f, kind) ==
    /\ Idle /\ "clean" \in stages[f] /\ clean_checkbox[f]
    /\ history' = [history EXCEPT ![f] = Append(@, kind)]
    /\ Rerun([kind |-> kind, file |-> f])
    /\ UNCHANGED <<clean_checkbox, vis_checkbox, chart_type, selected_columns,
                   x_axis, y_axis, conversion_type>>

\* the multiselect: remove one chosen column, or add one at the end
Deselect(f, c) ==
    /\ Idle /\ "select" \in stages[f]
    /\ c \in Range(selected_columns[f].value)
    /\ selected_columns' = [selected_columns EXCEPT ![f].value =
                                SelectSeq(@, LAMBDA v : v # c)]
    /\ Rerun(NoButton)
    /\ UNCHANGED <<clean_checkbox, vis_checkbox, chart_type, x_axis, y_axis,
                   conversion_type, history>>

AddColumn(f, c) ==
    /\ Idle /\ "select" \in stages[f]
    /\ c \in Range(ui[f].options) \ Range(selected_columns[f].value)
    /\ selected_columns' = [selected_columns EXCEPT ![f].value = Append(@, c)]
    /\ Rerun(NoButton)
    /\ UNCHANGED <<clean_checkbox, vis_checkbox, chart_type, x_axis, y_axis,
                   conversion_type, history>>

ToggleVis(f) ==
    /\ Idle /\ "visualize" \in stages[f]
    /\ vis_checkbox' = [vis_checkbox EXCEPT ![f] = ~@]
    /\ Rerun(NoButton)
    /\ UNCHANGED <<clean_checkbox, chart_type, selected_columns, x_axis, y_axis,
                   conversion_type, history>>

SelectChartType(t) ==
    /\ Idle /\ \E f \in Files : ui[f].chart_select
    /\ t # chart_type
    /\ chart_type' = t
    /\ Rerun(NoButton)
    /\ UNCHANGED <<clean_checkbox, vis_checkbox, selected_columns, x_axis, y_axis,
                   conversion_type, history>>

SelectAxis(f, axis, i) ==
    /\ Idle /\ ui[f].axes
    /\ IF axis = "x"
       THEN /\ i # x_axis[f]
            /\ x_axis' = [x_axis EXCEPT ![f] = i]
            /\ UNCHANGED y_axis
       ELSE /\ i # y_axis[f]
            /\ y_axis' = [y_axis EXCEPT ![f] = i]
            /\ UNCHANGED x_axis
    /\ Rerun(NoButton)
    /\ UNCHANGED <<clean_checkbox, vis_checkbox, chart_type, selected_columns,
                   conversion_type, history>>

SelectConversion(f, t) ==
    /\ Idle /\ "convert" \in stages[f]
    /\ t # conversion_type[f]
    /\ conversion_type' = [conversion_type EXCEPT ![f] = t]
    /\ Rerun(NoButton)
    /\ UNCHANGED <<clean_checkbox, vis_checkbox, chart_type, selected_columns,
                   x_axis, y_axis, history>>

PressConvert(f) ==
    /\ Idle /\ "convert" \in stages[f]
    /\ Rerun([kind |-> "convert", file |-> f])
    /\ UNCHANGED <<clean_checkbox, vis_checkbox, chart_type, selected_columns,
                   x_axis, y_axis, conversion_type, history>>

\* the download button is an interaction as well: the script runs again
PressDownload(f) ==
    /\ Idle /\ ui[f].download.present
    /\ Rerun(NoButton)
    /\ UNCHANGED <<clean_checkbox, vis_checkbox, chart_type, selected_columns,
                   x_axis, y_axis, conversion_type, history>>

Next ==
    \/ LoadFile
    \/ Inspect
    \/ Clean
    \/ Select
    \/ Visualize
    \/ Convert
    \/ Finish
    \/ \E f \in Files : ToggleClean(f)
    \/ \E f \in Files, kind \in {"dup", "fill"} : PressClean(f, kind)
    \/ \E f \in Files : \E c \in Range(ui[f].options) : Deselect(f, c)
    \/ \E f \in Files : \E c \in Range(ui[f].options) : AddColumn(f, c)
    \/ \E f \in Files : ToggleVis(f)
    \/ \E t \in Range(ChartTypes) : SelectChartType(t)
    \/ \E f \in Files, axis \in {"x", "y"}, i \in 0..1 : SelectAxis(f, axis, i)
    \/ \E f \in Files, t \in {"CSV", "Excel"} : SelectConversion(f, t)
    \/ \E f \in Files : PressConvert(f)
    \/ \E f \in Files : PressDownload(f)

Spec == Init /\ [][Next]_vars

----------------------------------------------------------------------------
(* SpecTable: the table operations on every table the loader builds from   *)
(* a content of at most MaxRows data lines.                                *)

CsvFields1 == {"", "10", "30"}
CsvFields2 == {"", "a", "b", "1"}
XlsxCells1 == {NaN, Num(10, 1), Str("a")}
XlsxCells2 == {NaN, Date("2024-01-01"), Num(30, 1)}

SeqsUpTo(S, n) == UNION {[1..k -> S] : k \in 0..n}

CsvContents ==
    {[fmt |-> "csv", header |-> <<"id", "name">>, lines |-> l] :
        l \in SeqsUpTo({Row2(a, b) : a \in CsvFields1, b \in CsvFields2}, MaxRows)}

XlsxContents ==
    {[fmt |-> "xlsx", header |-> <<"p", "d">>, lines |-> l] :
        l \in SeqsUpTo({<<a, b>> : a \in XlsxCells1, b \in XlsxCells2}, MaxRows)}

TableCsv == <<"t", ".", "c", "s", "v">>
TableXlsx == <<"t", ".", "x", "l", "s", "x">>

\* every selection the multiselect can hold: the columns chosen, in the
\* order they were chosen
Selections(columns) ==
    {s \in SeqsUpTo(Range(columns), Len(columns)) :
        \A i, j \in DOMAIN s : i # j => s[i] # s[j]}

NoRes == [removed |-> 0, sel |-> <<>>, conv |-> "", data |-> EmptyContent,
          back |-> [ok |-> FALSE, kind |-> "", df |-> EmptyFrame]]

InitTable ==
    /\ content \in CsvContents \cup XlsxContents
    /\ LET r == Load([name |-> IF content.fmt = "csv" THEN TableCsv ELSE TableXlsx,
                      content |-> content])
       IN  /\ df = r.df
           /\ orig = r.df
    /\ op = "load"
    /\ res = NoRes
    /\ uploaded_files = <<>>
    /\ clean_checkbox = <<>>
    /\ vis_checkbox = <<>>
    /\ chart_type = ChartTypes[1]
    /\ selected_columns = <<>>
    /\ x_axis = <<>>
    /\ y_axis = <<>>
    /\ conversion_type = <<>>
    /\ pressed = NoButton
    /\ interactions = 0
    /\ history = <<>>
    /\ idx = 1
    /\ pc = "table"
    /\ file_ext = <<>>
    /\ stages = <<>>
    /\ ui = <<>>

TRemoveDuplicates ==
    /\ op = "load"
    /\ LET r == RemoveDuplicatesButton(df)
       IN  /\ df' = r.df
           /\ res' = [res EXCEPT !.removed = r.removed]
    /\ op' = "dup"
    /\ UNCHANGED <<appVars, content, orig>>

TFillMissing ==
    /\ op = "load"
    /\ df' = FillMissingButton(df)
    /\ op' = "fill"
    /\ UNCHANGED <<appVars, content, orig, res>>

TSelect(sel) ==
    /\ op = "load"
    /\ df' = ColumnSelect(df, sel)
    /\ res' = [res EXCEPT !.sel = sel]
    /\ op' = "select"
    /\ UNCHANGED <<appVars, content, orig>>

\* the exporter, then the loader on the bytes it wrote
TExport(conv) ==
    /\ op \in {"load", "select"}
    /\ LET data == Export(df, conv)
       IN  res' = [res EXCEPT !.conv = conv, !.data = data,
                              !.back = Load([name |-> IF conv = "CSV" THEN TableCsv
                                                      ELSE TableXlsx,
                                             content |-> data])]
    /\ op' = "export"
    /\ UNCHANGED <<appVars, content, orig, df>>

NextTable ==
    \/ TRemoveDuplicates
    \/ TFillMissing
    \/ \E sel \in Selections(df.columns) : TSelect(sel)
    \/ \E conv \in {"CSV", "Excel"} : TExport(conv)

SpecTable == InitTable /\ [][NextTable]_vars

----------------------------------------------------------------------------
(* Properties.                                                             *)

Loaded(f) == Load(uploaded_files[f])
RunOver == pc \in {"done", "crashed"}
NumericColumns(d) == select_dtypes_number(d).columns

RECURSIVE ApplyHistory(_, _)
\* the table after the cleaning buttons of h, pressed in that order
ApplyHistory(d, h) ==
    IF h = <<>> THEN d
    ELSE ApplyHistory(IF Head(h) = "dup" THEN RemoveDuplicatesButton(d).df
                      ELSE FillMissingButton(d),
                      Tail(h))

\* C1: the bytes offered for download are the export of the table after the
\* cleaning buttons pressed earlier for that file and after the current
\* column selection.
C1_ExportIsCleaned ==
    \A f \in Files :
        ui[f].download.present =>
            ui[f].download.data =
                Export(ColumnSelect(ApplyHistory(Loaded(f).df, history[f]),
                                    selected_columns[f].value),
                       conversion_type[f])

C3_DownloadName ==
    \A f \in Files :
        ui[f].download.present =>
            ui[f].download.file_name =
                splitext(uploaded_files[f].name)[1]
                    \o (IF conversion_type[f] = "CSV" THEN DotCsv ELSE DotXlsx)

\* the positions of the rows that equal no earlier row
FirstOccurrences(rows) ==
    {i \in DOMAIN rows : \A j \in 1..(i - 1) : rows[j] # rows[i]}

\* C4: Remove Duplicates keeps exactly the rows equal to no earlier row, in
\* their original order; a second application changes nothing; the count
\* reported is rows before minus rows after.
C4_RemoveDuplicates ==
    op = "dup" =>
        LET keep == FirstOccurrences(orig.rows)
            kth(k) == CHOOSE i \in keep : Cardinality({j \in keep : j <= i}) = k
        IN  /\ df.columns = orig.columns
            /\ Len(df.rows) = Cardinality(keep)
            /\ \A k \in 1..Len(df.rows) : df.rows[k] = orig.rows[kth(k)]
            /\ RemoveDuplicatesButton(df).df = df
            /\ res.removed = Len(orig.rows) - Len(df.rows)

C4_Witness ==
    /\ op = "dup"
    /\ res.removed = 1
    /\ Len(df.rows) = 2
    /\ orig.rows[1] = orig.rows[2]

RECURSIVE SumOver(_, _)
\* the sum of the integers cells[i], i in S
SumOver(cells, S) ==
    IF S = {} THEN 0
    ELSE LET i == CHOOSE i \in S : TRUE
         IN  cells[i].n + SumOver(cells, S \ {i})

\* C5: after Fill Missing Values a numeric column with a non-missing value
\* has no missing value, keeps its non-missing values, holds its former
\* mean wherever a value was missing; other columns and the row count are
\* unchanged.
C5_FillMissing ==
    op = "fill" =>
        /\ df.columns = orig.columns
        /\ Len(df.rows) = Len(orig.rows)
        /\ \A j \in 1..Len(orig.columns) :
            LET before == Column(orig, j)
                after == Column(df, j)
                present == {i \in DOMAIN before : before[i].k = "num"}
            IN  IF orig.dtypes[j] \in NumberDtypes
                THEN present # {} =>
                        \A i \in DOMAIN before :
                            IF i \in present
                            THEN after[i] = before[i]
                            ELSE /\ after[i].k = "num"
                                 /\ after[i].d > 0
                                 /\ after[i].n * Cardinality(present)
                                        = SumOver(before, present) * after[i].d
                ELSE after = before

C5_Witness ==
    /\ op = "fill"
    /\ Column(orig, 1) = <<Num(10, 1), NaN, Num(30, 1)>>
    /\ Column(df, 1) = <<Num(10, 1), Num(20, 1), Num(30, 1)>>

\* C6: a non-empty selection leaves exactly the selected columns, in the
\* order of the selection, with every row; an empty selection leaves the
\* table as it was.
C6_ColumnSelection ==
    op = "select" =>
        IF res.sel # <<>>
        THEN /\ df.columns = res.sel
             /\ Len(df.rows) = Len(orig.rows)
             /\ \A i \in 1..Len(orig.rows) :
                    /\ Len(df.rows[i]) = Len(res.sel)
                    /\ \A q \in 1..Len(res.sel) :
                           df.rows[i][q] = orig.rows[i][IndexOf(res.sel[q], orig.columns)]
        ELSE df = orig

C6_Witness ==
    /\ op = "select"
    /\ res.sel = <<"name", "id">>
    /\ Len(orig.rows) >= 2
    /\ df.columns = <<"name", "id">>
    /\ df.rows # orig.rows

\* the loader gives back the exported table: same column names in the same
\* order, same row count, same values
RoundTrip ==
    /\ res.back.ok
    /\ res.back.df.columns = df.columns
    /\ Len(res.back.df.rows) = Len(df.rows)
    /\ res.back.df.rows = df.rows

LastRowAllMissing(d) ==
    /\ d.rows # <<>>
    /\ \A j \in DOMAIN d.rows[Len(d.rows)] : d.rows[Len(d.rows)][j].k = "nan"

ScatterRequested(f) ==
    /\ "visualize" \in stages[f]
    /\ ui[f].chart_select
    /\ chart_type = "Scatter Plot"
    /\ Len(NumericColumns(ui[f].working)) >= 2

\* C7: Scatter Plot on a table with two or more numeric columns puts x on
\* the first and y on the second numeric column by default, renders the
\* chart, then goes on to the file's conversion step and the later files.
C7_ScatterRenders ==
    RunOver =>
        \A f \in Files :
            ScatterRequested(f) =>
                LET cols == NumericColumns(ui[f].working)
                IN  /\ (x_axis[f] = 0 /\ y_axis[f] = 0) =>
                           (ui[f].x = cols[1] /\ ui[f].y = cols[2])
                    /\ ui[f].chart.kind = "Scatter Plot"
                    /\ "convert" \in stages[f]
                    /\ \A g \in Files : g > f => "load" \in stages[g]

\* C8: with visualization requested, the "no numeric data" notice appears
\* exactly when the table has no numeric column; Bar / Line / Area chart
\* all numeric columns otherwise; Scatter with one numeric column warns;
\* without a chart the conversion step and the later files still run.
C8_NoticeAndCharts ==
    RunOver =>
        \A f \in Files :
            ("visualize" \in stages[f] /\ vis_checkbox[f]) =>
                LET cols == NumericColumns(ui[f].working)
                    drawn == ui[f].chart # NoChart
                IN  /\ ui[f].notice <=> cols = <<>>
                    /\ ui[f].notice => ~drawn
                    /\ (cols # <<>> /\ chart_type # "Scatter Plot") =>
                           ui[f].chart = [kind |-> chart_type, columns |-> cols]
                    /\ (Len(cols) = 1 /\ chart_type = "Scatter Plot") =>
                           ui[f].scatter_warning /\ ~drawn
                    /\ (ui[f].notice \/ ui[f].scatter_warning \/ cols = <<>>) =>
                           /\ "convert" \in stages[f]
                           /\ \A g \in Files : g > f => "load" \in stages[g]

\* C10: what the inspector shows (preview, statistics, missing counts) is computed
\* from the table as loaded, whatever cleaning button or column selection
\* the run applies afterwards.
C10_InspectorShowsLoaded ==
    \A f \in Files :
        ui[f].inspected =>
            /\ ui[f].preview = head(Loaded(f).df)
            /\ ui[f].describe = describe_count(Loaded(f).df)
            /\ ui[f].missing = isnull_sum(Loaded(f).df)

C10_Witness ==
    \E f \in Files :
        /\ pc = "done"
        /\ ui[f].inspected
        /\ ui[f].removed = 1
        /\ ui[f].working.rows # Loaded(f).df.rows
        /\ ui[f].preview = Loaded(f).df.rows

====
